---- MODULE Spec2Model ----
(***************************************************************************)
(* MessageSplitter (lib/message-splitter.js): a Transform stream that     *)
(* separates the header block of a mail message from its body.  The       *)
(* header block is published with the 'headers' event, the body bytes are *)
(* pushed downstream.                                                      *)
(*                                                                         *)
(* Bytes are integers, buffers and strings are sequences of integers.     *)
(* Node runs the callbacks given to setImmediate in the order they were   *)
(* scheduled; the stream machinery calls _transform for the next chunk    *)
(* only after the callback of the previous one, and _flush after the last *)
(* one.                                                                    *)
(***************************************************************************)
EXTENDS Integers, Sequences, FiniteSets, TLC

VARIABLES
    lastBytes,      \* this.lastBytes: the 4-byte tail window
    headersParsed,  \* this.headersParsed
    headerBytes,    \* this.headerBytes
    headerChunks,   \* this.headerChunks: list of buffers, or Null
    rawHeaders,     \* this.rawHeaders: a buffer, or RawFalse
    bodySize,       \* this.bodySize
    headers,        \* this.headers: list of {key, line}, or Undefined
    curLinePos,     \* this.curLinePos: -1 while undefined
    msg,            \* the bytes the caller writes to the stream, in order
    pos,            \* number of bytes of msg handed to _transform so far
    pieces,         \* number of non-empty chunks handed to _transform
    empties,        \* number of empty chunks handed to _transform
    ready,          \* TRUE when the callback of the last _transform ran
    immediates,     \* callbacks scheduled with setImmediate, in order
    out,            \* what left the stream: 'headers' events and pushes
    pc,             \* "writing", then "done" when _flush has called its
                    \* callback or "thrown" when it raised instead
    listenerThrows, \* TRUE when the listener of 'headers' throws
    acks,           \* number of _transform callbacks invoked
    errors,         \* number of them invoked with an error
    \* the start function of the POP3 server (pop3.js)
    enabled,        \* config.pop3.enabled
    started,        \* let started
    startPc,        \* "init" before the call, "scheduled" when done(null,
                    \* false) waits in setImmediate, "waiting" when the
                    \* server was told to listen, "finished"
    listenPending,  \* TRUE while the callback of listen can still come
    delivered,      \* the events the server has delivered, in order
    doneCalls,      \* the calls of done, in order
    logged,         \* the errors given to log.error, in order
    closes          \* number of calls of server.close

vars ==
    <<lastBytes, headersParsed, headerBytes, headerChunks, rawHeaders,
      bodySize, headers, curLinePos, msg, pos, pieces, empties, ready,
      immediates, out, pc, listenerThrows, acks, errors,
      enabled, started, startPc, listenPending, delivered, doneCalls,
      logged, closes>>

----------------------------------------------------------------------------
(* Byte values *)

LF == 10
CR == 13
TAB == 9
SP == 32
COLON == 58
ReplacementChar == 65533

(* Bounds *)

\* longest message whose every fragmentation is explored
MaxInput == 4
\* messages longer than MaxInput are written in at most this many chunks
MaxPieces == 2
\* number of empty chunks written to one stream
MaxEmpty == 1
\* number of 'error' events the POP3 server emits
MaxErrors == 3

\* the errors the POP3 server emits
ErrorKinds == {"EADDRINUSE", "EACCES", "ECONNRESET"}

\* the bytes of the short messages: the line ends, a space, a colon and 'A'
Alphabet == {LF, CR, SP, COLON, 65}

----------------------------------------------------------------------------
(* The messages of the documented cases *)

\* 'X-Test: 1'
ExNoBoundary ==
    <<88, 45, 84, 101, 115, 116, 58, 32, 49>>
\* 'Subject: Hello\r\n World\r\n\r\nBODY'
ExFolding ==
    <<83, 117, 98, 106, 101, 99, 116, 58, 32, 72, 101, 108, 108, 111, 13, 10,
      32, 87, 111, 114, 108, 100, 13, 10, 13, 10, 66, 79, 68, 89>>
\* 'X-Broken\r\n\r\nBODY'
ExNoColon ==
    <<88, 45, 66, 114, 111, 107, 101, 110, 13, 10, 13, 10, 66, 79, 68, 89>>
\* 'Header: 1\r\n\r\nBODY'
ExCrossChunk ==
    <<72, 101, 97, 100, 101, 114, 58, 32, 49, 13, 10, 13, 10, 66, 79, 68, 89>>
\* 'A: 1\n\nBODY'
ExBareLF ==
    <<65, 58, 32, 49, 10, 10, 66, 79, 68, 89>>
\* 'A: 1\r\n\r\nBODY'
ExCRLF ==
    <<65, 58, 32, 49, 13, 10, 13, 10, 66, 79, 68, 89>>
\* 'BODY'
StrBODY ==
    <<66, 79, 68, 89>>
\* 'x-test'
StrXTestKey ==
    <<120, 45, 116, 101, 115, 116>>
\* 'subject'
StrSubjectKey ==
    <<115, 117, 98, 106, 101, 99, 116>>
\* 'Subject: Hello\nWorld'
StrSubjectFoldedClaim ==
    <<83, 117, 98, 106, 101, 99, 116, 58, 32, 72, 101, 108, 108, 111, 10,
      87, 111, 114, 108, 100>>
\* 'Subject: Hello\n World'
StrSubjectFolded ==
    <<83, 117, 98, 106, 101, 99, 116, 58, 32, 72, 101, 108, 108, 111, 10,
      32, 87, 111, 114, 108, 100>>
\* 'X-Broken'
StrXBroken ==
    <<88, 45, 66, 114, 111, 107, 101, 110>>
\* 'header'
StrHeaderKey ==
    <<104, 101, 97, 100, 101, 114>>
\* 'Header: 1'
StrHeaderLine ==
    <<72, 101, 97, 100, 101, 114, 58, 32, 49>>
\* 'A: 1'
StrALine ==
    <<65, 58, 32, 49>>
\* 'a'
StrAKey ==
    <<97>>

Examples ==
    {ExNoBoundary, ExFolding, ExNoColon, ExCrossChunk, ExBareLF, ExCRLF}

BoundedMsgs ==
    UNION {[1..n -> Alphabet] : n \in 0..MaxInput}

Messages ==
    BoundedMsgs \cup Examples

----------------------------------------------------------------------------
(* Values of the fields that are not buffers or lists *)

\* headerChunks = null
Null == <<<<-1>>>>
\* rawHeaders = false
RawFalse == <<-1>>
\* headers was never assigned
Undefined == <<[key |-> <<-1>>, line |-> <<-1>>]>>

----------------------------------------------------------------------------
(* Buffer and string primitives *)

Min(a, b) == IF a < b THEN a ELSE b

Max(a, b) == IF a < b THEN b ELSE a

\* buf.slice(start, end) with 0-based offsets; a negative offset counts from
\* the end, offsets are clamped to the buffer
Slice(buf, start, end) ==
    LET len == Len(buf)
        s == IF start < 0 THEN Max(len + start, 0) ELSE Min(start, len)
        e == IF end < 0 THEN Max(len + end, 0) ELSE Min(end, len)
    IN  IF e <= s THEN <<>> ELSE SubSeq(buf, s + 1, e)

RECURSIVE Flatten(_)
Flatten(list) ==
    IF list = <<>> THEN <<>> ELSE Head(list) \o Flatten(Tail(list))

\* Buffer.concat(list, totalLength): the buffers joined, cut or zero-filled
\* to totalLength bytes
BufferConcat(list, totalLength) ==
    LET all == Flatten(list)
        n == Max(totalLength, 0)
    IN  [i \in 1..n |-> IF i <= Len(all) THEN all[i] ELSE 0]

\* Buffer.from('\r\n\r\n') and Buffer.from('\r\n')
HeaderTerminator == <<CR, LF, CR, LF>>

EmptyBody == <<CR, LF>>

\* buf.toString('utf-8') for single-byte input: an ASCII byte is its own
\* character, any other byte decodes to U+FFFD
ToStringUtf8(buf) ==
    [i \in 1..Len(buf) |-> IF buf[i] < 128 THEN buf[i] ELSE ReplacementChar]

----------------------------------------------------------------------------
(* parseHeaders *)

\* str.replace(/[\r\n]+$/, ''): the string without its trailing CR and LF
\* characters
RECURSIVE StripTrailingEOL(_)
StripTrailingEOL(str) ==
    IF str # <<>> /\ str[Len(str)] \in {CR, LF}
    THEN StripTrailingEOL(SubSeq(str, 1, Len(str) - 1))
    ELSE str

\* str.split(/\r?\n/), scanning from character i (1-based) with the line
\* collected so far in cur: every LF ends a line, and a CR right before
\* that LF belongs to the separator
RECURSIVE SplitFrom(_, _, _, _)
SplitFrom(str, i, cur, acc) ==
    IF i > Len(str) THEN Append(acc, cur)
    ELSE IF str[i] = LF
         THEN SplitFrom(str, i + 1, <<>>, Append(acc, cur))
         ELSE IF str[i] = CR /\ i < Len(str) /\ str[i + 1] = LF
              THEN SplitFrom(str, i + 2, <<>>, Append(acc, cur))
              ELSE SplitFrom(str, i + 1, Append(cur, str[i]), acc)

SplitLines(str) ==
    SplitFrom(str, 1, <<>>, <<>>)

\* str.indexOf(ch): 0-based offset of the first occurrence, or -1
IndexOf(str, ch) ==
    IF \E i \in 1..Len(str) : str[i] = ch
    THEN (CHOOSE i \in 1..Len(str) :
              str[i] = ch /\ \A j \in 1..(i - 1) : str[j] # ch) - 1
    ELSE -1

\* str.substr(start, length): a length below 1 gives the empty string
Substr(str, start, length) ==
    IF length <= 0 \/ start >= Len(str) THEN <<>>
    ELSE SubSeq(str, start + 1, Min(start + length, Len(str)))

\* String.prototype.toLowerCase on the characters modelled
ToLowerCase(str) ==
    [i \in 1..Len(str) |->
        IF str[i] >= 65 /\ str[i] <= 90 THEN str[i] + 32 ELSE str[i]]

\* the characters String.prototype.trim removes (TAB, LF, VT, FF, CR, SP,
\* NBSP)
WhiteSpace == {9, 10, 11, 12, 13, 32, 160}

RECURSIVE TrimStart(_)
TrimStart(str) ==
    IF str # <<>> /\ str[1] \in WhiteSpace THEN TrimStart(Tail(str)) ELSE str

RECURSIVE TrimEnd(_)
TrimEnd(str) ==
    IF str # <<>> /\ str[Len(str)] \in WhiteSpace
    THEN TrimEnd(SubSeq(str, 1, Len(str) - 1))
    ELSE str

Trim(str) ==
    TrimEnd(TrimStart(str))

\* _normalizeHeader(key)
NormalizeHeader(key) ==
    Trim(ToLowerCase(key))

\* variant: slice in place of substr, so that an offset of -1 cuts the last
\* character off instead of giving the empty string
HeaderKeySlice(line) ==
    NormalizeHeader(SubSeq(line, 1, IF IndexOf(line, COLON) < 0
                                    THEN Len(line) + IndexOf(line, COLON)
                                    ELSE IndexOf(line, COLON)))

\* the key of one logical line: line.substr(0, line.indexOf(':')) normalized
HeaderKey(line) ==
    NormalizeHeader(Substr(line, 0, IndexOf(line, COLON)))

\* lines[i].charAt(0) is a space or a tab
IsContinuation(line) ==
    line # <<>> /\ line[1] \in {SP, TAB}

\* variant: the continuation glued on without the newline
JoinContinuationNoNewline(prev, cur) ==
    prev \o cur

\* lines[i - 1] += '\n' + lines[i]
JoinContinuation(prev, cur) ==
    prev \o <<LF>> \o cur

\* variant: the test of i is missing, and a first line that starts with a
\* space or a tab is spliced out with nothing before it to take it
RECURSIVE ParseLoopNoGuard(_, _, _)
ParseLoopNoGuard(lines, i, entries) ==
    IF i < 0 THEN entries
    ELSE LET cur == lines[i + 1]
         IN  IF IsContinuation(cur)
             THEN IF i = 0 THEN entries
                  ELSE ParseLoopNoGuard(
                           [SubSeq(lines, 1, i) EXCEPT ![i] = JoinContinuation(@, cur)],
                           i - 1, entries)
             ELSE ParseLoopNoGuard(SubSeq(lines, 1, i), i - 1,
                      <<[key |-> HeaderKey(cur), line |-> cur]>> \o entries)

\* the loop of parseHeaders at 0-based index i: lines holds the i + 1 lines
\* not visited yet, entries the {key, line} objects already stored at the
\* indexes above i
RECURSIVE ParseLoop(_, _, _)
ParseLoop(lines, i, entries) ==
    IF i < 0 THEN entries
    ELSE LET cur == lines[i + 1]
         IN  IF i # 0 /\ IsContinuation(cur)
             THEN ParseLoop([SubSeq(lines, 1, i) EXCEPT ![i] = JoinContinuation(@, cur)],
                            i - 1, entries)
             ELSE ParseLoop(SubSeq(lines, 1, i), i - 1,
                            <<[key |-> HeaderKey(cur), line |-> cur]>> \o entries)

ParseHeaders(buf) ==
    LET lines == SplitLines(StripTrailingEOL(ToStringUtf8(buf)))
    IN  ParseLoop(lines, Len(lines) - 1, <<>>)

----------------------------------------------------------------------------
(* updateLastBytes and checkHeaders *)

\* variant: the new bytes are written without shifting the old ones first
UpdateLastBytesNoShift(lb, data) ==
    LET lblen == Len(lb)
        nblen == IF Len(data) < lblen THEN Len(data) ELSE lblen
    IN  [j \in 1..lblen |->
            IF j <= lblen - nblen THEN lb[j]
            ELSE data[Len(data) - lblen + j]]

\* updateLastBytes(data): the window shifted left by min(data.length, 4)
\* and filled from the right with the last bytes of data
UpdateLastBytes(lb, data) ==
    LET lblen == Len(lb)
        nblen == Min(Len(data), lblen)
    IN  [j \in 1..lblen |->
            IF j <= lblen - nblen THEN lb[j + nblen]
            ELSE data[Len(data) - lblen + j]]

\* byte i (0-based) of the window followed by the chunk
ByteAt(lb, data, i) ==
    IF i < Len(lb) THEN lb[i + 1] ELSE data[i - Len(lb) + 1]

\* variant: only the bare LF LF pattern is accepted
IsBoundaryAtLFOnly(lb, data, i) ==
    /\ ByteAt(lb, data, i) = LF
    /\ i # 0
    /\ ByteAt(lb, data, i - 1) = LF

\* the test of the scan loop at offset i: an LF that follows an LF, or that
\* follows CR preceded by LF (pr2 is false at offset 1)
IsBoundaryAt(lb, data, i) ==
    /\ ByteAt(lb, data, i) = LF
    /\ i # 0
    /\ \/ ByteAt(lb, data, i - 1) = LF
       \/ /\ ByteAt(lb, data, i - 1) = CR
          /\ i > 1
          /\ ByteAt(lb, data, i - 2) = LF

\* variant: the loop does not break and the last match stays
FindBoundaryLast(lb, data) ==
    LET hits == {i \in 0..(Len(lb) + Len(data) - 1) : IsBoundaryAt(lb, data, i)}
    IN  IF hits = {} THEN -1
        ELSE CHOOSE i \in hits : \A j \in hits : i >= j

\* the offset at which the scan loop breaks, or -1 when it runs to the end
FindBoundary(lb, data) ==
    LET hits == {i \in 0..(Len(lb) + Len(data) - 1) : IsBoundaryAt(lb, data, i)}
    IN  IF hits = {} THEN -1
        ELSE CHOOSE i \in hits : \A j \in hits : i <= j

\* the test that guards the deferred push of the rest of the chunk
HasLeftover(dataLen, headerPos) ==
    dataLen - 1 > headerPos

HeadersEvent(h) ==
    [type |-> "headers", headers |-> h, data |-> <<>>]

PushEvent(chunk) ==
    [type |-> "push", headers |-> <<>>, data |-> chunk]

PushImmediate(chunk) ==
    [kind |-> "push", chunk |-> chunk]

CallbackImmediate ==
    [kind |-> "callback", chunk |-> <<>>]

\* the fields of the MessageSplitter instance
Self ==
    [lastBytes |-> lastBytes, headersParsed |-> headersParsed,
     headerBytes |-> headerBytes, headerChunks |-> headerChunks,
     rawHeaders |-> rawHeaders, bodySize |-> bodySize, headers |-> headers,
     curLinePos |-> curLinePos]

\* the instance after construction
NewSplitter ==
    [lastBytes |-> <<0, 0, 0, 0>>, headersParsed |-> FALSE,
     headerBytes |-> 0, headerChunks |-> <<>>, rawHeaders |-> RawFalse,
     bodySize |-> 0, headers |-> Undefined, curLinePos |-> -1]

\* variant: the chunk is kept but its length is not added to headerBytes
AccumulateChunkNoCount(self, data) ==
    [self EXCEPT
        !.headerChunks = Append(@, data),
        !.lastBytes = UpdateLastBytes(@, data)]

\* checkHeaders(data) when the scan found nothing: the chunk is counted,
\* kept, and its last bytes go to the window
AccumulateChunk(self, data) ==
    [self EXCEPT
        !.headerBytes = @ + Len(data),
        !.headerChunks = Append(@, data),
        !.lastBytes = UpdateLastBytes(@, data)]

\* checkHeaders(data) below its first test: the scan of the window and the
\* chunk, and what follows it; a listener that throws makes emit raise, and
\* checkHeaders with it, before the rest of the chunk is looked at
ScanChunk(self, data) ==
      LET lblen == Len(self.lastBytes)
          i == FindBoundary(self.lastBytes, data)
      IN  IF i # -1
          THEN
            LET headerPos == i - lblen + 1
                bytes == self.headerBytes + headerPos
                chunks == Append(self.headerChunks, Slice(data, 0, headerPos))
                raw == BufferConcat(chunks, bytes)
                hdrs == ParseHeaders(raw)
                chunk == Slice(data, headerPos, Len(data))
                rest == HasLeftover(Len(data), headerPos)
            IN  [self |-> [self EXCEPT
                              !.curLinePos = 0,
                              !.headersParsed = TRUE,
                              !.headerBytes = bytes,
                              !.rawHeaders = raw,
                              !.headerChunks = Null,
                              !.headers = hdrs,
                              !.bodySize = IF rest /\ ~listenerThrows
                                           THEN @ + Len(chunk) ELSE @],
                 ret |-> FALSE,
                 raised |-> listenerThrows,
                 emits |-> <<HeadersEvent(hdrs)>>,
                 sched |-> IF rest /\ ~listenerThrows
                           THEN <<PushImmediate(chunk)>> ELSE <<>>]
          ELSE
            [self |-> [AccumulateChunk(self, data) EXCEPT !.curLinePos = 0],
             ret |-> FALSE, raised |-> FALSE, emits |-> <<>>, sched |-> <<>>]

\* variant: the test of headersParsed is missing and every chunk is scanned
CheckHeadersNoBypass(self, data) ==
    ScanChunk(self, data)

\* checkHeaders(data) on instance self: the instance afterwards, the value
\* returned, the events emitted and the callbacks scheduled
CheckHeaders(self, data) ==
    IF self.headersParsed
    THEN [self |-> self, ret |-> TRUE, raised |-> FALSE,
          emits |-> <<>>, sched |-> <<>>]
    ELSE ScanChunk(self, data)

\* variant: the chunk is pushed whatever checkHeaders returned
TransformChunkAlwaysPush(self, chunk) ==
    LET r == CheckHeaders(self, chunk)
    IN  [self |-> [r.self EXCEPT !.bodySize = @ + Len(chunk)],
         err |-> FALSE,
         emits |-> Append(r.emits, PushEvent(chunk)),
         sched |-> Append(r.sched, CallbackImmediate)]

\* variant: the return in front of callback(E) is missing, and the callback
\* is scheduled a second time
TransformChunkFallThrough(self, chunk) ==
    LET r == CheckHeaders(self, chunk)
    IN  IF r.raised
        THEN [self |-> r.self, err |-> TRUE, emits |-> r.emits,
              sched |-> <<CallbackImmediate>>]
        ELSE IF r.ret
        THEN [self |-> [r.self EXCEPT !.bodySize = @ + Len(chunk)],
              err |-> FALSE,
              emits |-> Append(r.emits, PushEvent(chunk)),
              sched |-> Append(r.sched, CallbackImmediate)]
        ELSE [self |-> r.self,
              err |-> FALSE,
              emits |-> r.emits,
              sched |-> Append(r.sched, CallbackImmediate)]

\* _transform(chunk, encoding, callback) for a non-empty chunk: err tells
\* that checkHeaders raised and callback(E) was called at once
TransformChunk(self, chunk) ==
    LET r == CheckHeaders(self, chunk)
    IN  IF r.raised
        THEN [self |-> r.self, err |-> TRUE, emits |-> r.emits, sched |-> <<>>]
        ELSE IF r.ret
        THEN [self |-> [r.self EXCEPT !.bodySize = @ + Len(chunk)],
              err |-> FALSE,
              emits |-> Append(r.emits, PushEvent(chunk)),
              sched |-> Append(r.sched, CallbackImmediate)]
        ELSE [self |-> r.self,
              err |-> FALSE,
              emits |-> r.emits,
              sched |-> Append(r.sched, CallbackImmediate)]

\* variant: the test of headerChunks is missing and the end of the stream
\* always publishes a header block
FlushStreamAlways(self) ==
    LET chunks == IF self.headerChunks = Null THEN <<HeaderTerminator>>
                  ELSE Append(self.headerChunks, HeaderTerminator)
        bytes == self.headerBytes + 4
        raw == BufferConcat(chunks, bytes)
        hdrs == ParseHeaders(raw)
    IN  [self |-> [self EXCEPT
                      !.headersParsed = TRUE,
                      !.headerBytes = bytes,
                      !.rawHeaders = raw,
                      !.headers = hdrs,
                      !.headerChunks = Null],
         raised |-> FALSE,
         emits |-> <<HeadersEvent(hdrs), PushEvent(EmptyBody)>>]

\* variant: the terminator is appended but not counted in headerBytes
FlushStreamNoCount(self) ==
    IF self.headerChunks # Null
    THEN
      LET chunks == Append(self.headerChunks, HeaderTerminator)
          bytes == self.headerBytes
          raw == BufferConcat(chunks, bytes)
          hdrs == ParseHeaders(raw)
      IN  [self |-> [self EXCEPT
                        !.headersParsed = TRUE,
                        !.headerBytes = bytes,
                        !.rawHeaders = raw,
                        !.headers = hdrs,
                        !.headerChunks = Null],
           raised |-> FALSE,
           emits |-> <<HeadersEvent(hdrs), PushEvent(EmptyBody)>>]
    ELSE [self |-> self, raised |-> FALSE, emits |-> <<>>]

\* variant: headerChunks is not released at the end of the stream
FlushStreamKeepChunks(self) ==
    IF self.headerChunks # Null
    THEN
      LET chunks == Append(self.headerChunks, HeaderTerminator)
          bytes == self.headerBytes + 4
          raw == BufferConcat(chunks, bytes)
          hdrs == ParseHeaders(raw)
      IN  [self |-> [self EXCEPT
                        !.headersParsed = TRUE,
                        !.headerBytes = bytes,
                        !.rawHeaders = raw,
                        !.headers = hdrs,
                        !.headerChunks = chunks],
           raised |-> FALSE,
           emits |-> <<HeadersEvent(hdrs), PushEvent(EmptyBody)>>]
    ELSE [self |-> self, raised |-> FALSE, emits |-> <<>>]

\* _flush(callback): a listener that throws makes emit raise, and _flush
\* with it, before headerChunks is released, the body pushed and the
\* callback called
FlushStream(self) ==
    IF self.headerChunks # Null
    THEN
      LET chunks == Append(self.headerChunks, HeaderTerminator)
          bytes == self.headerBytes + 4
          raw == BufferConcat(chunks, bytes)
          hdrs == ParseHeaders(raw)
      IN  [self |-> [self EXCEPT
                        !.headersParsed = TRUE,
                        !.headerBytes = bytes,
                        !.rawHeaders = raw,
                        !.headers = hdrs,
                        !.headerChunks = IF listenerThrows THEN chunks ELSE Null],
           raised |-> listenerThrows,
           emits |-> IF listenerThrows THEN <<HeadersEvent(hdrs)>>
                     ELSE <<HeadersEvent(hdrs), PushEvent(EmptyBody)>>]
    ELSE [self |-> self, raised |-> FALSE, emits |-> <<>>]

----------------------------------------------------------------------------
(* The stream *)

Assign(self) ==
    /\ lastBytes' = self.lastBytes
    /\ headersParsed' = self.headersParsed
    /\ headerBytes' = self.headerBytes
    /\ headerChunks' = self.headerChunks
    /\ rawHeaders' = self.rawHeaders
    /\ bodySize' = self.bodySize
    /\ headers' = self.headers
    /\ curLinePos' = self.curLinePos

SplitterUnchanged ==
    UNCHANGED <<lastBytes, headersParsed, headerBytes, headerChunks,
                rawHeaders, bodySize, headers, curLinePos>>

Pop3Unchanged ==
    UNCHANGED <<enabled, started, startPc, listenPending, delivered,
                doneCalls, logged, closes>>

\* the start function of the POP3 server has not been called
Pop3Idle ==
    /\ started = FALSE
    /\ startPc = "init"
    /\ listenPending = FALSE
    /\ delivered = <<>>
    /\ doneCalls = <<>>
    /\ logged = <<>>
    /\ closes = 0

\* a new stream
NewStream ==
    /\ lastBytes = NewSplitter.lastBytes
    /\ headersParsed = NewSplitter.headersParsed
    /\ headerBytes = NewSplitter.headerBytes
    /\ headerChunks = NewSplitter.headerChunks
    /\ rawHeaders = NewSplitter.rawHeaders
    /\ bodySize = NewSplitter.bodySize
    /\ headers = NewSplitter.headers
    /\ curLinePos = NewSplitter.curLinePos
    /\ pos = 0
    /\ pieces = 0
    /\ empties = 0
    /\ ready = TRUE
    /\ immediates = <<>>
    /\ out = <<>>
    /\ pc = "writing"
    /\ acks = 0
    /\ errors = 0

\* a new stream and the message its caller is going to write
Constructed ==
    /\ NewStream
    /\ msg \in Messages
    /\ enabled = FALSE
    /\ Pop3Idle

\* the listeners of 'headers' return
Init ==
    /\ Constructed
    /\ listenerThrows = FALSE

\* the listener of 'headers' may be one that throws
InitAnyListener ==
    /\ Constructed
    /\ listenerThrows \in BOOLEAN

\* the caller writes the next k bytes of msg as one chunk
Transform(k) ==
    /\ pc = "writing"
    /\ ready
    /\ k \in 1..(Len(msg) - pos)
    /\ Len(msg) <= MaxInput \/ pieces + 1 < MaxPieces \/ k = Len(msg) - pos
    /\ LET r == TransformChunk(Self, SubSeq(msg, pos + 1, pos + k))
       IN  /\ Assign(r.self)
           /\ out' = out \o r.emits
           /\ immediates' = immediates \o r.sched
           /\ ready' = r.err
           /\ acks' = IF r.err THEN acks + 1 ELSE acks
           /\ errors' = IF r.err THEN errors + 1 ELSE errors
    /\ pos' = pos + k
    /\ pieces' = pieces + 1
    /\ UNCHANGED <<msg, empties, pc, listenerThrows>>
    /\ Pop3Unchanged

\* the caller writes an empty chunk: _transform returns callback() at once
TransformEmpty ==
    /\ pc = "writing"
    /\ ready
    /\ empties < MaxEmpty
    /\ empties' = empties + 1
    /\ acks' = acks + 1
    /\ SplitterUnchanged
    /\ UNCHANGED <<msg, pos, pieces, ready, immediates, out, pc,
                   listenerThrows, errors>>
    /\ Pop3Unchanged

\* the event loop runs the oldest callback scheduled with setImmediate
RunImmediate ==
    /\ immediates # <<>>
    /\ LET im == Head(immediates)
       IN  IF im.kind = "push"
           THEN /\ out' = Append(out, PushEvent(im.chunk))
                /\ ready' = ready
                /\ acks' = acks
           ELSE /\ out' = out
                /\ ready' = TRUE
                /\ acks' = acks + 1
    /\ immediates' = Tail(immediates)
    /\ SplitterUnchanged
    /\ UNCHANGED <<msg, pos, pieces, empties, pc, listenerThrows, errors>>
    /\ Pop3Unchanged

\* the caller has ended the stream and every chunk was acknowledged
Flush ==
    /\ pc = "writing"
    /\ ready
    /\ pos = Len(msg)
    /\ LET r == FlushStream(Self)
       IN  /\ Assign(r.self)
           /\ out' = out \o r.emits
           /\ pc' = IF r.raised THEN "thrown" ELSE "done"
    /\ UNCHANGED <<msg, pos, pieces, empties, ready, immediates,
                   listenerThrows, acks, errors>>
    /\ Pop3Unchanged

Next ==
    \/ \E k \in 1..Len(msg) : Transform(k)
    \/ TransformEmpty
    \/ RunImmediate
    \/ Flush

Spec ==
    Init /\ [][Next]_vars

SpecAnyListener ==
    InitAnyListener /\ [][Next]_vars

----------------------------------------------------------------------------
(* The start function of the POP3 server: module.exports of pop3.js *)

StreamUnchanged ==
    /\ SplitterUnchanged
    /\ UNCHANGED <<msg, pos, pieces, empties, ready, immediates, out, pc,
                   listenerThrows, acks, errors>>

\* what the handlers read and write
Starter ==
    [started |-> started, doneCalls |-> doneCalls, logged |-> logged,
     closes |-> closes]

DoneFalse ==
    [err |-> "null", value |-> "false"]

DoneError(err) ==
    [err |-> err, value |-> "undefined"]

DoneServer ==
    [err |-> "null", value |-> "server"]

\* the handler of the server's 'error' event
OnError(s, err) ==
    IF ~s.started
    THEN [s EXCEPT !.started = TRUE, !.doneCalls = Append(@, DoneError(err))]
    ELSE [s EXCEPT !.logged = Append(@, err)]

\* variant: the callback of listen does not look at started
OnListeningNoCheck(s) ==
    [s EXCEPT !.started = TRUE, !.doneCalls = Append(@, DoneServer)]

\* the callback given to server.listen
OnListening(s) ==
    IF s.started
    THEN [s EXCEPT !.closes = @ + 1]
    ELSE [s EXCEPT !.started = TRUE, !.doneCalls = Append(@, DoneServer)]

AssignStarter(s) ==
    /\ started' = s.started
    /\ doneCalls' = s.doneCalls
    /\ logged' = s.logged
    /\ closes' = s.closes

InitPop3 ==
    /\ NewStream
    /\ msg = <<>>
    /\ listenerThrows = FALSE
    /\ enabled \in BOOLEAN
    /\ Pop3Idle

\* the exported function is called with done
Start ==
    /\ startPc = "init"
    /\ IF ~enabled
       THEN /\ startPc' = "scheduled"
            /\ listenPending' = FALSE
       ELSE /\ startPc' = "waiting"
            /\ listenPending' = TRUE
    /\ started' = FALSE
    /\ UNCHANGED <<enabled, delivered, doneCalls, logged, closes>>
    /\ StreamUnchanged

\* POP3 is disabled: the scheduled done(null, false) runs
DoneImmediate ==
    /\ startPc = "scheduled"
    /\ startPc' = "finished"
    /\ doneCalls' = Append(doneCalls, DoneFalse)
    /\ UNCHANGED <<enabled, started, listenPending, delivered, logged, closes>>
    /\ StreamUnchanged

\* the server emits 'error'
ServerError(err) ==
    /\ startPc = "waiting"
    /\ Cardinality({i \in 1..Len(delivered) : delivered[i] # "listening"}) < MaxErrors
    /\ AssignStarter(OnError(Starter, err))
    /\ delivered' = Append(delivered, err)
    /\ UNCHANGED <<enabled, startPc, listenPending>>
    /\ StreamUnchanged

\* the server calls the callback of listen
ListenCallback ==
    /\ startPc = "waiting"
    /\ listenPending
    /\ listenPending' = FALSE
    /\ AssignStarter(OnListening(Starter))
    /\ delivered' = Append(delivered, "listening")
    /\ UNCHANGED <<enabled, startPc>>
    /\ StreamUnchanged

NextPop3 ==
    \/ Start
    \/ DoneImmediate
    \/ \E err \in ErrorKinds : ServerError(err)
    \/ ListenCallback

SpecPop3 ==
    InitPop3 /\ [][NextPop3]_vars

----------------------------------------------------------------------------
(* What an observer of the stream sees *)

\* the number of 'headers' events emitted so far
Emitted ==
    Cardinality({i \in 1..Len(out) : out[i].type = "headers"})

RECURSIVE PushedBytes(_)
PushedBytes(events) ==
    IF events = <<>> THEN <<>>
    ELSE (IF Head(events).type = "push" THEN Head(events).data ELSE <<>>)
         \o PushedBytes(Tail(events))

\* the body output: the bytes pushed downstream so far, in order
Body ==
    PushedBytes(out)

\* the stream has ended and nothing is scheduled any more
Finished ==
    pc = "done" /\ immediates = <<>>

\* the message holds a blank-line terminator: an LF right after an LF, or
\* right after a CR that follows an LF
HasBlankLine(m) ==
    \E i \in 2..Len(m) :
        /\ m[i] = LF
        /\ \/ m[i - 1] = LF
           \/ i > 2 /\ m[i - 1] = CR /\ m[i - 2] = LF

\* the events of the run that writes m as one chunk (no chunk when m is
\* empty), lets the scheduled callbacks run and ends the stream, with the
\* instance it leaves
RunWhole(m) ==
    LET a == IF m = <<>>
             THEN [self |-> NewSplitter, emits |-> <<>>,
                   sched |-> <<CallbackImmediate>>]
             ELSE TransformChunk(NewSplitter, m)
        deferred == [i \in 1..(Len(a.sched) - 1) |-> PushEvent(a.sched[i].chunk)]
        b == FlushStream(a.self)
    IN  [self |-> b.self, out |-> a.emits \o deferred \o b.emits]

----------------------------------------------------------------------------
(* Conservation, fragmentation, emission and ordering *)

\* C1: when a message written as one chunk has ended, the length of
\* rawHeaders plus the number of body bytes pushed is the length of the
\* message if it holds a blank line, and that length + 4 + 2 if it does not
Conservation ==
    (Finished /\ pieces <= 1) =>
        Len(rawHeaders) + Len(Body) =
            IF HasBlankLine(msg) THEN Len(msg) ELSE Len(msg) + 4 + 2

\* C2: however the message was cut into chunks, the ended stream has the
\* rawHeaders, the header block and the body output of the run that writes
\* the message as one chunk
ChunkInvariance ==
    Finished =>
        /\ rawHeaders = RunWhole(msg).self.rawHeaders
        /\ headers = RunWhole(msg).self.headers
        /\ Body = PushedBytes(RunWhole(msg).out)

\* C3: 'headers' is never emitted twice, and it has been emitted exactly
\* once when _flush has returned, whatever chunks (empty ones included, or
\* none at all) were written
SingleEmission ==
    /\ Emitted <= 1
    /\ pc = "done" => Emitted = 1

\* a stream that got an empty chunk and two other chunks, found the
\* boundary in a chunk and has ended
SingleEmissionWitness ==
    /\ Finished
    /\ empties = 1
    /\ pieces = 2
    /\ HasBlankLine(msg)
    /\ Emitted = 1

\* C4: every push is preceded by the 'headers' event, and as long as the
\* splitter accumulates nothing was pushed and no push is scheduled
HeadersBeforeBody ==
    /\ \A i \in 1..Len(out) :
           out[i].type = "push" => \E j \in 1..(i - 1) : out[j].type = "headers"
    /\ ~headersParsed =>
           /\ Body = <<>>
           /\ \A i \in 1..Len(immediates) : immediates[i].kind # "push"

\* the boundary and a rest of the same chunk: the only chunk written was
\* answered by the event and then by the deferred push of its rest
HeadersBeforeBodyWitness ==
    /\ pc = "writing"
    /\ pieces = 1
    /\ Len(out) = 2
    /\ out[1].type = "headers"
    /\ out[2].type = "push"
    /\ rawHeaders \o out[2].data = msg

\* C5: a stream that ends without a blank line in its input has rawHeaders
\* equal to the input followed by CR LF CR LF, has emitted the block parsed
\* from it and then pushed CR LF as its whole body; 'X-Test: 1' gives
\* [{key: 'x-test', line: 'X-Test: 1'}]
NoBoundaryFlush ==
    (pc = "done" /\ ~HasBlankLine(msg)) =>
        /\ rawHeaders = msg \o <<CR, LF, CR, LF>>
        /\ headers = ParseHeaders(rawHeaders)
        /\ out = <<HeadersEvent(headers), PushEvent(<<CR, LF>>)>>
        /\ immediates = <<>>
        /\ msg = ExNoBoundary =>
               headers = <<[key |-> StrXTestKey, line |-> ExNoBoundary]>>

\* 'X-Test: 1' written in two chunks and ended
NoBoundaryFlushWitness ==
    /\ pc = "done"
    /\ msg = ExNoBoundary
    /\ pieces = 2
    /\ Body = <<CR, LF>>

----------------------------------------------------------------------------
(* The header parser *)

\* C6 as stated: 'Subject: Hello\r\n World\r\n\r\nBODY' gives the block
\* [{key: 'subject', line: 'Subject: Hello\nWorld'}] and the body 'BODY'
FoldingAsClaimed ==
    (Finished /\ msg = ExFolding /\ pieces = 1) =>
        /\ headers = <<[key |-> StrSubjectKey, line |-> StrSubjectFoldedClaim]>>
        /\ Body = StrBODY

\* C6 amended: 'Subject: Hello\r\n World\r\n\r\nBODY' gives the block
\* [{key: 'subject', line: 'Subject: Hello\n World'}], the continuation
\* joined with its leading space kept, and, written as one chunk, the body
\* 'BODY'
FoldingAmended ==
    (Finished /\ msg = ExFolding) =>
        /\ headers = <<[key |-> StrSubjectKey, line |-> StrSubjectFolded]>>
        /\ pieces = 1 => Body = StrBODY

\* the folded message written as one chunk and ended
FoldingWitness ==
    /\ Finished
    /\ msg = ExFolding
    /\ pieces = 1
    /\ Len(headers) = 1

\* str without every CR that stands right before an LF
RECURSIVE DropCRBeforeLF(_)
DropCRBeforeLF(str) ==
    IF str = <<>> THEN <<>>
    ELSE IF Len(str) > 1 /\ str[1] = CR /\ str[2] = LF
         THEN DropCRBeforeLF(Tail(str))
         ELSE <<str[1]>> \o DropCRBeforeLF(Tail(str))

\* the lines of the entries of a header block, joined by LF
RECURSIVE JoinLF(_)
JoinLF(entries) ==
    IF entries = <<>> THEN <<>>
    ELSE IF Len(entries) = 1 THEN entries[1].line
         ELSE entries[1].line \o <<LF>> \o JoinLF(Tail(entries))

\* C7: whatever header bytes were collected, parseHeaders gave a block of
\* at least one entry that holds every line of the text, an entry whose
\* line has no colon has the empty key, and 'X-Broken\r\n\r\nBODY' gives
\* [{key: '', line: 'X-Broken'}] and (written as one chunk) the body 'BODY'
ParserTotality ==
    headersParsed =>
        /\ Len(headers) >= 1
        /\ JoinLF(headers) = DropCRBeforeLF(StripTrailingEOL(rawHeaders))
        /\ \A i \in 1..Len(headers) :
               (\A j \in 1..Len(headers[i].line) : headers[i].line[j] # COLON)
                   => headers[i].key = <<>>
        /\ (Finished /\ msg = ExNoColon) =>
               /\ headers = <<[key |-> <<>>, line |-> StrXBroken]>>
               /\ pieces = 1 => Body = StrBODY

\* the message with the colon-less header line written as one chunk
ParserTotalityWitness ==
    /\ Finished
    /\ msg = ExNoColon
    /\ pieces = 1
    /\ headers[1].key = <<>>
    /\ headers[1].line = StrXBroken

\* m is header lines free of CR, each ended by a bare LF, then a bare LF
\* and a body; p is the offset of that blank line's LF
BareLFAt(m, p) ==
    /\ p \in 2..Len(m)
    /\ m[p] = LF
    /\ m[p - 1] = LF
    /\ \A j \in 1..p : m[j] # CR
    /\ \A q \in 2..(p - 1) : ~(m[q] = LF /\ m[q - 1] = LF)

IsBareLF(m) ==
    \E p \in 2..Len(m) : BareLFAt(m, p)

\* the same header lines and blank line ended by CR LF, and the same body
RECURSIVE CRBeforeEveryLF(_)
CRBeforeEveryLF(str) ==
    IF str = <<>> THEN <<>>
    ELSE (IF str[1] = LF THEN <<CR, LF>> ELSE <<str[1]>>)
         \o CRBeforeEveryLF(Tail(str))

ToCRLF(m) ==
    LET p == CHOOSE q \in 2..Len(m) : BareLFAt(m, q)
    IN  CRBeforeEveryLF(SubSeq(m, 1, p)) \o SubSeq(m, p + 1, Len(m))

\* C8: a message whose header lines and blank line end in bare LF, written
\* as one chunk, gives the header block and the body output of the same
\* lines and body with CR LF line ends; 'A: 1\n\nBODY' and
\* 'A: 1\r\n\r\nBODY' both give [{key: 'a', line: 'A: 1'}] and 'BODY'
BareLFEquivalence ==
    (Finished /\ pieces = 1) =>
        /\ IsBareLF(msg) =>
               /\ headers = RunWhole(ToCRLF(msg)).self.headers
               /\ Body = PushedBytes(RunWhole(ToCRLF(msg)).out)
        /\ msg \in {ExBareLF, ExCRLF} =>
               /\ headers = <<[key |-> StrAKey, line |-> StrALine]>>
               /\ Body = StrBODY

\* 'A: 1\n\nBODY' written as one chunk and ended
BareLFEquivalenceWitness ==
    /\ Finished
    /\ pieces = 1
    /\ msg = ExBareLF
    /\ ToCRLF(msg) = ExCRLF
    /\ Body = StrBODY

----------------------------------------------------------------------------
(* Forwarding *)

\* C9: a chunk written once headersParsed is set is pushed as it is, as one
\* chunk and at once, bodySize grows by its length, and headers,
\* rawHeaders, headerBytes, lastBytes, headersParsed and headerChunks stay
\* as they were
ForwardVerbatim ==
    [][(headersParsed /\ pos' > pos) =>
          /\ out' = Append(out, PushEvent(SubSeq(msg, pos + 1, pos')))
          /\ bodySize' = bodySize + (pos' - pos)
          /\ UNCHANGED <<headers, rawHeaders, headerBytes, lastBytes,
                         headersParsed, headerChunks>>]_vars

\* the first chunk ended the headers (the window was never written) and
\* left nothing over, the second one holds a blank line and was pushed
ForwardVerbatimWitness ==
    /\ pieces = 2
    /\ pos = Len(msg)
    /\ lastBytes = <<0, 0, 0, 0>>
    /\ Len(out) = 2
    /\ out[1].type = "headers"
    /\ out[2].type = "push"
    /\ HasBlankLine(out[2].data)
    /\ rawHeaders \o out[2].data = msg
    /\ bodySize = Len(out[2].data)

\* C10: the chunk in which the boundary is found at offset headerPos has its
\* bytes from headerPos on scheduled as the first push whenever it is longer
\* than headerPos, and nothing scheduled but the callback when it is not
LeftoverForwarded ==
    [][(~headersParsed /\ headersParsed' /\ pos' > pos) =>
          LET chunk == SubSeq(msg, pos + 1, pos')
              headerPos == headerBytes' - headerBytes
          IN  immediates' =
                  IF Len(chunk) > headerPos
                  THEN <<PushImmediate(SubSeq(chunk, headerPos + 1, Len(chunk))),
                         CallbackImmediate>>
                  ELSE <<CallbackImmediate>>]_vars
----------------------------------------------------------------------------
(* The boundary *)

\* the 1-based offset in m of the earliest LF that follows an LF, or that
\* follows a CR preceded by an LF: the number of bytes of the header region
FirstBlank(m) ==
    CHOOSE i \in 2..Len(m) :
        /\ HasBlankLine(SubSeq(m, 1, i))
        /\ ~HasBlankLine(SubSeq(m, 1, i - 1))

\* C11: a chunk taken while accumulating ends the headers exactly when the
\* input up to its end holds an LF preceded by LF or by LF CR; headerBytes
\* and rawHeaders then stop right after the earliest such LF of the stream,
\* and headerPos, the part of that chunk counted as header, lies in
\* 1..length of the chunk
LeftmostBoundary ==
    [][(~headersParsed /\ pos' > pos) =>
          IF HasBlankLine(SubSeq(msg, 1, pos'))
          THEN /\ headersParsed'
               /\ headerBytes' = FirstBlank(msg)
               /\ rawHeaders' = SubSeq(msg, 1, FirstBlank(msg))
               /\ headerBytes' - headerBytes \in 1..(pos' - pos)
          ELSE ~headersParsed']_vars

\* the mixed sequence LF CR LF, cut between two chunks, ended the headers of
\* a message that goes on with a second blank line
LeftmostBoundaryWitness ==
    /\ pc = "writing"
    /\ headersParsed
    /\ pieces = 2
    /\ rawHeaders = <<LF, CR, LF>>
    /\ msg = <<LF, CR, LF, LF>>
    /\ lastBytes # <<0, 0, 0, 0>>
----------------------------------------------------------------------------
(* Order and count of the body bytes *)

\* C12: whenever the stream is ready for its next chunk or its end, the
\* bytes pushed so far are the bytes of the input written so far that come
\* after the boundary, in their order: the deferred push of the rest of the
\* boundary chunk has run before any later chunk or _flush pushes
BodyInOrder ==
    (ready /\ HasBlankLine(SubSeq(msg, 1, pos))) =>
        Body = SubSeq(msg, FirstBlank(msg) + 1, pos)
\* C14: when the stream has ended and the deferred pushes have run,
\* bodySize is the number of bytes pushed downstream
BodySizeAccurate ==
    Finished => bodySize = Len(Body)

----------------------------------------------------------------------------
(* The state machine *)

\* C13: headersParsed is false on a new stream and never goes back to
\* false; headerChunks is null exactly when 'headers' has been emitted; once
\* it has been emitted rawHeaders and headers keep their values
OneWay ==
    /\ []((pos = 0 /\ pc = "writing") => ~headersParsed)
    /\ []((headerChunks = Null) <=> (Emitted = 1))
    /\ [][headersParsed => headersParsed']_vars
    /\ [][Emitted >= 1 => UNCHANGED <<rawHeaders, headers>>]_vars

\* the boundary came in the first of three chunks, and the stream has ended
OneWayWitness ==
    /\ Finished
    /\ pieces = 3
    /\ HasBlankLine(msg)
    /\ FirstBlank(msg) = 2
    /\ headerChunks = Null
    /\ Len(out) = 3
----------------------------------------------------------------------------
(* The structure of the header block *)

\* the lines of the header text
TextLines(buf) ==
    SplitLines(StripTrailingEOL(ToStringUtf8(buf)))

\* the offsets of the lines that open an entry: the first line, and every
\* line that does not start with a space or a tab
EntryStarts(lines) ==
    {i \in 1..Len(lines) : i = 1 \/ ~(lines[i] # <<>> /\ lines[i][1] \in {SP, TAB})}

\* the offset of the n-th line that opens an entry
NthStart(lines, n) ==
    CHOOSE i \in EntryStarts(lines) :
        Cardinality({j \in EntryStarts(lines) : j <= i}) = n

\* lines[from..to] joined by LF
RECURSIVE JoinRange(_, _, _)
JoinRange(lines, from, to) ==
    IF from = to THEN lines[from]
    ELSE lines[from] \o <<LF>> \o JoinRange(lines, from + 1, to)

\* the trimmed, lowercased text before the first colon of line, or the empty
\* string when it has no colon
KeyBeforeColon(line) ==
    IF \A j \in 1..Len(line) : line[j] # COLON THEN <<>>
    ELSE LET c == CHOOSE j \in 1..Len(line) :
                      line[j] = COLON /\ \A k \in 1..(j - 1) : line[k] # COLON
         IN  Trim(ToLowerCase(SubSeq(line, 1, c - 1)))

\* C15: the header block has one entry for the first line and for every
\* line that does not start with a space or a tab, in the order of the text;
\* the line of an entry is its opening line and the continuation lines right
\* after it, joined by LF, and its key is the trimmed, lowercased text before
\* the first colon of that line, or empty when it has no colon
ParserStructure ==
    headersParsed =>
        LET lines == TextLines(rawHeaders)
            count == Cardinality(EntryStarts(lines))
        IN  /\ Len(headers) = count
            /\ \A n \in 1..count :
                   LET from == NthStart(lines, n)
                       to == IF n = count THEN Len(lines)
                             ELSE NthStart(lines, n + 1) - 1
                   IN  /\ headers[n].line = JoinRange(lines, from, to)
                       /\ headers[n].key = KeyBeforeColon(headers[n].line)

\* a text whose first line starts with a space, followed by a continuation
\* line: one entry that holds both
ParserStructureWitness ==
    /\ headersParsed
    /\ Len(TextLines(rawHeaders)) = 2
    /\ TextLines(rawHeaders)[1] = <<SP, 65>>
    /\ TextLines(rawHeaders)[2] = <<SP>>
    /\ Len(headers) = 1
----------------------------------------------------------------------------
(* Errors and acknowledgements *)

\* C16: when the chunk that ends the headers makes checkHeaders raise (the
\* listener of 'headers' throws), _transform calls its callback once, with
\* the error and at once, pushes nothing, schedules nothing, and from then
\* on no 'headers' event is emitted on that stream
ErrorPropagation ==
    /\ [][(listenerThrows /\ ~headersParsed /\ pos' > pos
              /\ HasBlankLine(SubSeq(msg, 1, pos'))) =>
             /\ errors' = errors + 1
             /\ acks' = acks + 1
             /\ ready'
             /\ immediates' = immediates
             /\ immediates' = <<>>
             /\ PushedBytes(out') = PushedBytes(out)]_vars
    /\ [][errors >= 1 =>
             Cardinality({i \in 1..Len(out') : out'[i].type = "headers"}) = Emitted]_vars
    /\ [](errors <= 1)

\* the listener threw on the first of three chunks; the two chunks written
\* after the error were pushed, and the stream was ended without a second
\* event
ErrorPropagationWitness ==
    /\ listenerThrows
    /\ errors = 1
    /\ pc = "done"
    /\ pieces = 3
    /\ acks = 3
    /\ Emitted = 1
    /\ Len(out) = 3
    /\ bodySize = 2

\* C19: every call of _transform has had its callback invoked once, or has
\* it scheduled once, and never more; a _flush that was called has invoked
\* its callback
Acknowledged ==
    /\ acks + Cardinality({i \in 1..Len(immediates) : immediates[i].kind = "callback"})
           = pieces + empties
    /\ ready <=> (acks = pieces + empties)
    /\ pc # "thrown"
----------------------------------------------------------------------------
(* The tail window and the header buffers *)

\* the last 4 elements of a sequence of at least 4
LastFour(seq) ==
    SubSeq(seq, Len(seq) - 3, Len(seq))

\* C17: while the splitter accumulates, lastBytes is the last 4 bytes of
\* four zero bytes followed by the input taken so far; the chunk that ends
\* the headers, the end of the stream and every later chunk leave it as it
\* is
TailWindow ==
    /\ [](~headersParsed =>
             lastBytes = LastFour(<<0, 0, 0, 0>> \o SubSeq(msg, 1, pos)))
    /\ [][headersParsed' => lastBytes' = lastBytes]_vars

\* three chunks of one byte were taken and found no boundary: one zero byte
\* is left in the window
TailWindowWitness ==
    /\ ~headersParsed
    /\ pieces = 3
    /\ pos = 3
    /\ lastBytes = <<0, LF, CR, 65>>

\* C18: while the splitter accumulates, headerChunks holds the chunks taken
\* so far, in order, and headerBytes is the sum of their lengths; when the
\* headers are ended, by a chunk or by _flush, rawHeaders is the buffered
\* bytes followed by the header part of that chunk or by CR LF CR LF,
\* and headerBytes is its length
HeaderAccounting ==
    /\ [](~headersParsed =>
             /\ Len(headerChunks) = pieces
             /\ Flatten(headerChunks) = SubSeq(msg, 1, pos)
             /\ headerBytes = Len(Flatten(headerChunks)))
    /\ [][(~headersParsed /\ headersParsed') =>
             /\ headerBytes' = Len(rawHeaders')
             /\ rawHeaders' =
                    Flatten(headerChunks) \o
                        (IF pos' > pos
                         THEN SubSeq(msg, pos + 1, pos + (headerBytes' - headerBytes))
                         ELSE <<CR, LF, CR, LF>>)]_vars

\* two chunks were buffered and the third one ended the headers with its
\* first byte
HeaderAccountingWitness ==
    /\ headersParsed
    /\ pc = "writing"
    /\ pieces = 3
    /\ msg = <<65, COLON, LF, LF>>
    /\ rawHeaders = msg
    /\ headerBytes = 4
    /\ lastBytes = <<0, 65, COLON, LF>>
----------------------------------------------------------------------------
(* The start of the POP3 server *)

\* the errors among the events delivered after the first one, in order
RECURSIVE ErrorsOf(_)
ErrorsOf(events) ==
    IF events = <<>> THEN <<>>
    ELSE (IF Head(events) = "listening" THEN <<>> ELSE <<Head(events)>>)
         \o ErrorsOf(Tail(events))

\* C20: done is never called twice; with POP3 disabled it is called with
\* false and nothing else happens; otherwise it is called on the first event
\* the server delivers, with the error if that is an error and with the
\* server if that is the listen callback; a listen callback that comes
\* after an error closes the server, and every later error is only logged
StartOnce ==
    /\ Len(doneCalls) <= 1
    /\ ~enabled =>
           /\ delivered = <<>> /\ logged = <<>> /\ closes = 0
           /\ doneCalls = IF startPc = "finished" THEN <<DoneFalse>> ELSE <<>>
    /\ (enabled /\ delivered = <<>>) =>
           doneCalls = <<>> /\ logged = <<>> /\ closes = 0
    /\ (enabled /\ delivered # <<>>) =>
           /\ doneCalls = <<IF delivered[1] = "listening" THEN DoneServer
                            ELSE DoneError(delivered[1])>>
           /\ logged = ErrorsOf(Tail(delivered))
           /\ closes = IF \E i \in 2..Len(delivered) : delivered[i] = "listening"
                       THEN 1 ELSE 0

\* an error came first, then the listen callback, then another error
StartOnceWitness ==
    /\ enabled
    /\ delivered = <<"EADDRINUSE", "listening", "EACCES">>
    /\ doneCalls = <<DoneError("EADDRINUSE")>>
    /\ closes = 1
    /\ logged = <<"EACCES">>

====
